---- MODULE Spec2Model ----
(***************************************************************************)
(* Model of generator/schema_parser.go: SchemaParser.FilterByGenerator,    *)
(* parseBlocks, parseBlockAt and reconstructSchema.                        *)
(*                                                                         *)
(* A Go string is a sequence of tokens.  A token is either one character   *)
(* that the code inspects (" ", "\n", "{", "}"), the comment marker "//",  *)
(* or a maximal run of letters ("generator", "model", "a", ...).  The      *)
(* string functions of package strings are modelled on that               *)
(* representation by what they compute.  Line indices are zero-based as in *)
(* the source; a TLA+ sequence s is indexed s[i + 1].                      *)
(***************************************************************************)
EXTENDS Integers, Sequences, FiniteSets, TLC

\* Largest number of input lines of the schema text handed to the parser.
MaxLines == 3

NL == "\n"
SP == " "
WhiteSpace == {SP, NL}

\* The schema lines the inputs are built from.
BlankLine      == <<SP>>
CommentLine    == <<"//", "x">>
GenA           == <<"generator", SP, "a", SP, "{", "}">>
GenB           == <<"generator", SP, "b", SP, "{", "}">>
GenAOpen       == <<"generator", SP, "a", SP, "{">>
CloseLine      == <<"}">>
OpenLine       == <<"{">>
ModelU         == <<"model", SP, "U", SP, "{", "}">>
ModelUOpen     == <<"model", SP, "U", SP, "{">>
OtherLine      == <<SP, "x">>
GenACloseOpen  == <<"generator", SP, "a", SP, "}", SP, "{">>
DatasourceBare == <<"datasource", SP, "d">>

LineSet == {BlankLine, CommentLine, GenA, GenB, GenAOpen, CloseLine, OpenLine,
            ModelU, ModelUOpen, OtherLine, GenACloseOpen, DatasourceBare}

\* The generator names a caller asks for.
NameSet == {<<"a">>, <<"b">>}

----------------------------------------------------------------------------
\* package strings

RECURSIVE Join(_, _)
Join(elems, sep) ==
  IF Len(elems) = 0 THEN <<>>
  ELSE IF Len(elems) = 1 THEN elems[1]
  ELSE elems[1] \o sep \o Join(Tail(elems), sep)

RECURSIVE SplitFrom(_, _, _)
SplitFrom(s, pos, cur) ==
  IF pos > Len(s) THEN <<cur>>
  ELSE IF s[pos] = NL THEN <<cur>> \o SplitFrom(s, pos + 1, <<>>)
  ELSE SplitFrom(s, pos + 1, Append(cur, s[pos]))

Split(s) == SplitFrom(s, 1, <<>>)

RECURSIVE TrimLeft(_)
TrimLeft(s) ==
  IF Len(s) > 0 /\ s[1] \in WhiteSpace THEN TrimLeft(Tail(s)) ELSE s

RECURSIVE TrimRight(_)
TrimRight(s) ==
  IF Len(s) > 0 /\ s[Len(s)] \in WhiteSpace
  THEN TrimRight(SubSeq(s, 1, Len(s) - 1)) ELSE s

TrimSpace(s) == TrimRight(TrimLeft(s))

HasPrefix(s, prefix) ==
  Len(s) >= Len(prefix) /\ SubSeq(s, 1, Len(prefix)) = prefix

Contains(s, ch) == \E k \in 1..Len(s) : s[k] = ch

\* zero-based position of the first ch, -1 when there is none
Index(s, ch) ==
  IF Contains(s, ch)
  THEN (CHOOSE k \in 1..Len(s) :
          s[k] = ch /\ \A m \in 1..(k - 1) : s[m] # ch) - 1
  ELSE -1

RECURSIVE FieldsFrom(_, _, _)
FieldsFrom(s, pos, cur) ==
  IF pos > Len(s) THEN (IF cur = <<>> THEN <<>> ELSE <<cur>>)
  ELSE IF s[pos] \in WhiteSpace
       THEN (IF cur = <<>> THEN <<>> ELSE <<cur>>) \o FieldsFrom(s, pos + 1, <<>>)
       ELSE FieldsFrom(s, pos + 1, Append(cur, s[pos]))

Fields(s) == FieldsFrom(s, 1, <<>>)

----------------------------------------------------------------------------
\* SchemaBlock and parseBlockAt

SchemaBlock(type, name, text, startPos, endPos) ==
  [Type |-> type, Name |-> name, Content |-> text,
   StartPos |-> startPos, EndPos |-> endPos]

EmptyBlock == SchemaBlock("", <<>>, <<>>, 0, 0)

blockTypes == <<"generator", "datasource", "model", "enum">>

\* the first entry of blockTypes that, followed by a space, starts the line
RECURSIVE MatchBlockType(_, _)
MatchBlockType(line, n) ==
  IF n > Len(blockTypes) THEN ""
  ELSE IF HasPrefix(line, <<blockTypes[n], SP>>) THEN blockTypes[n]
  ELSE MatchBlockType(line, n + 1)

\* the inner loop over the characters of one line: counts braces and stops
\* at the "}" that brings the count to 0
RECURSIVE CountBraces(_, _, _)
CountBraces(currentLine, pos, braceCount) ==
  IF pos > Len(currentLine) THEN [braceCount |-> braceCount, complete |-> FALSE]
  ELSE IF currentLine[pos] = "{"
       THEN CountBraces(currentLine, pos + 1, braceCount + 1)
  ELSE IF currentLine[pos] = "}"
       THEN (IF braceCount - 1 = 0
             THEN [braceCount |-> 0, complete |-> TRUE]
             ELSE CountBraces(currentLine, pos + 1, braceCount - 1))
  ELSE CountBraces(currentLine, pos + 1, braceCount)

\* the outer loop over the lines from startLine: every visited line is
\* appended to contentLines; endLine is set only when the loop is left by
\* the goto
RECURSIVE FindClosingBrace(_, _, _, _, _)
FindClosingBrace(ls, startLine, i, braceCount, contentLines) ==
  IF i >= Len(ls)
  THEN [braceCount |-> braceCount, endLine |-> startLine,
        contentLines |-> contentLines]
  ELSE LET r == CountBraces(ls[i + 1], 1, braceCount)
           cl == Append(contentLines, ls[i + 1])
       IN IF r.complete
          THEN [braceCount |-> 0, endLine |-> i, contentLines |-> cl]
          ELSE FindClosingBrace(ls, startLine, i + 1, r.braceCount, cl)

OpenBracePos(ls, startLine, line) ==
  IF Index(line, "{") # -1 THEN Index(line, "{")
  ELSE IF \E j \in (startLine + 1)..(Len(ls) - 1) : Contains(ls[j + 1], "{")
       THEN 0
       ELSE -1

NotFound == [found |-> FALSE, block |-> EmptyBlock, endLine |-> 0]

parseBlockAt(ls, startLine) ==
  LET line == TrimSpace(ls[startLine + 1])
      blockType == MatchBlockType(line, 1)
      parts == Fields(line)
      blockName == IF Len(parts) >= 2 THEN parts[2] ELSE <<>>
      scan == FindClosingBrace(ls, startLine, startLine, 0, <<>>)
  IN IF blockType = "" THEN NotFound
     ELSE IF OpenBracePos(ls, startLine, line) = -1 THEN NotFound
     ELSE IF scan.braceCount # 0 THEN NotFound
     ELSE [found |-> TRUE,
           block |-> SchemaBlock(blockType, blockName,
                                 Join(scan.contentLines, <<NL>>),
                                 startLine, scan.endLine),
           endLine |-> scan.endLine]

----------------------------------------------------------------------------
VARIABLES
  content,         \* SchemaParser.content
  generatorName,   \* the argument of FilterByGenerator
  pc,              \* position inside FilterByGenerator
  lines,           \* parseBlocks: strings.Split(p.content, "\n")
  i,               \* parseBlocks: the cursor
  blocks,          \* parseBlocks: the blocks emitted so far
  k,               \* FilterByGenerator: index of the range loop
  filteredBlocks,  \* FilterByGenerator
  foundGenerator,  \* FilterByGenerator
  r,               \* reconstructSchema: index of the range loop
  result,          \* reconstructSchema
  out,             \* the string FilterByGenerator returns
  err,             \* the error FilterByGenerator returns
  rerun,           \* TRUE in the call that filters the output of the first
  firstOut         \* the output of the first call

vars == <<content, generatorName, pc, lines, i, blocks, k, filteredBlocks,
          foundGenerator, r, result, out, err, rerun, firstOut>>

Inputs ==
  {Join(ls, <<NL>>) : ls \in UNION {[1..n -> LineSet] : n \in 1..MaxLines}}

\* NewSchemaParser(c) followed by the entry of FilterByGenerator(name)
Call(c, name) ==
  /\ content' = c
  /\ generatorName' = name
  /\ pc' = "parseBlocks"
  /\ lines' = Split(c)
  /\ i' = 0
  /\ blocks' = <<>>
  /\ k' = 0
  /\ filteredBlocks' = <<>>
  /\ foundGenerator' = FALSE
  /\ r' = 0
  /\ result' = <<>>
  /\ out' = <<>>
  /\ err' = "none"

Init ==
  /\ content \in Inputs
  /\ generatorName \in NameSet
  /\ pc = "parseBlocks"
  /\ lines = Split(content)
  /\ i = 0
  /\ blocks = <<>>
  /\ k = 0
  /\ filteredBlocks = <<>>
  /\ foundGenerator = FALSE
  /\ r = 0
  /\ result = <<>>
  /\ out = <<>>
  /\ err = "none"
  /\ rerun = FALSE
  /\ firstOut = <<>>

parseVars == <<lines, i, blocks>>
filterVars == <<k, filteredBlocks, foundGenerator>>
reconstructVars == <<r, result>>
callVars == <<content, generatorName, rerun, firstOut>>

----------------------------------------------------------------------------
\* parseBlocks

IsComment(line) == HasPrefix(line, <<"//">>)

\* a cursor that steps over the line following a block
AfterBlockSkipsLine(endLine) == endLine + 2

AfterBlock(endLine) == endLine + 1

ParseSkipEmpty ==
  /\ pc = "parseBlocks" /\ i < Len(lines)
  /\ TrimSpace(lines[i + 1]) = <<>>
  /\ i' = i + 1
  /\ UNCHANGED <<lines, blocks, pc, out, err>>
  /\ UNCHANGED <<filterVars, reconstructVars, callVars>>

ParseComment ==
  /\ pc = "parseBlocks" /\ i < Len(lines)
  /\ LET line == TrimSpace(lines[i + 1])
     IN /\ line # <<>>
        /\ IsComment(line)
  /\ blocks' = Append(blocks, SchemaBlock("comment", <<>>, lines[i + 1], i, i))
  /\ i' = i + 1
  /\ UNCHANGED <<lines, pc, out, err>>
  /\ UNCHANGED <<filterVars, reconstructVars, callVars>>

ParseBlock ==
  /\ pc = "parseBlocks" /\ i < Len(lines)
  /\ LET line == TrimSpace(lines[i + 1])
         res == parseBlockAt(lines, i)
     IN /\ line # <<>>
        /\ ~IsComment(line)
        /\ res.found
        /\ blocks' = Append(blocks, res.block)
        /\ i' = AfterBlock(res.endLine)
  /\ UNCHANGED <<lines, pc, out, err>>
  /\ UNCHANGED <<filterVars, reconstructVars, callVars>>

ParseOther ==
  /\ pc = "parseBlocks" /\ i < Len(lines)
  /\ LET line == TrimSpace(lines[i + 1])
         res == parseBlockAt(lines, i)
     IN /\ line # <<>>
        /\ ~IsComment(line)
        /\ ~res.found
  /\ blocks' = Append(blocks, SchemaBlock("other", <<>>, lines[i + 1], i, i))
  /\ i' = i + 1
  /\ UNCHANGED <<lines, pc, out, err>>
  /\ UNCHANGED <<filterVars, reconstructVars, callVars>>

\* parseBlocks returns (blocks, nil): its only return statement.  The
\* err != nil branch of FilterByGenerator is therefore never taken.
ParseReturn ==
  /\ pc = "parseBlocks" /\ i >= Len(lines)
  /\ pc' = "filter"
  /\ UNCHANGED <<parseVars, out, err>>
  /\ UNCHANGED <<filterVars, reconstructVars, callVars>>

----------------------------------------------------------------------------
\* FilterByGenerator: the loop over blocks

\* a filter that takes every generator block for the requested one
NameMatchesAny(block, name) == block.Name = block.Name

NameMatches(block, name) == block.Name = name

FilterGeneratorKept ==
  /\ pc = "filter" /\ k < Len(blocks)
  /\ blocks[k + 1].Type = "generator"
  /\ NameMatches(blocks[k + 1], generatorName)
  /\ filteredBlocks' = Append(filteredBlocks, blocks[k + 1])
  /\ foundGenerator' = TRUE
  /\ k' = k + 1
  /\ UNCHANGED <<pc, out, err, parseVars, reconstructVars, callVars>>

FilterGeneratorDropped ==
  /\ pc = "filter" /\ k < Len(blocks)
  /\ blocks[k + 1].Type = "generator"
  /\ ~NameMatches(blocks[k + 1], generatorName)
  /\ k' = k + 1
  /\ UNCHANGED <<filteredBlocks, foundGenerator>>
  /\ UNCHANGED <<pc, out, err, parseVars, reconstructVars, callVars>>

FilterSchemaBlock ==
  /\ pc = "filter" /\ k < Len(blocks)
  /\ blocks[k + 1].Type \in {"datasource", "model", "enum"}
  /\ filteredBlocks' = Append(filteredBlocks, blocks[k + 1])
  /\ k' = k + 1
  /\ UNCHANGED <<foundGenerator>>
  /\ UNCHANGED <<pc, out, err, parseVars, reconstructVars, callVars>>

\* a default case that drops the block instead of keeping it
FilterDefaultDrops ==
  /\ pc = "filter" /\ k < Len(blocks)
  /\ blocks[k + 1].Type \notin {"generator", "datasource", "model", "enum"}
  /\ k' = k + 1
  /\ UNCHANGED <<filteredBlocks, foundGenerator>>
  /\ UNCHANGED <<pc, out, err, parseVars, reconstructVars, callVars>>

FilterDefault ==
  /\ pc = "filter" /\ k < Len(blocks)
  /\ blocks[k + 1].Type \notin {"generator", "datasource", "model", "enum"}
  /\ filteredBlocks' = Append(filteredBlocks, blocks[k + 1])
  /\ k' = k + 1
  /\ UNCHANGED <<foundGenerator>>
  /\ UNCHANGED <<pc, out, err, parseVars, reconstructVars, callVars>>

FilterNotFound ==
  /\ pc = "filter" /\ k >= Len(blocks)
  /\ ~foundGenerator
  /\ out' = <<>>
  /\ err' = "generator not found"
  /\ pc' = "done"
  /\ UNCHANGED <<parseVars, filterVars, reconstructVars, callVars>>

FilterFound ==
  /\ pc = "filter" /\ k >= Len(blocks)
  /\ foundGenerator
  /\ pc' = "reconstructSchema"
  /\ UNCHANGED <<out, err, parseVars, filterVars, reconstructVars, callVars>>

----------------------------------------------------------------------------
\* reconstructSchema

\* a separator rule that forgets the comment exception
NeedsSpacingIgnoresComment(nextBlock) ==
  TrimSpace(nextBlock.Content) # <<>>

NeedsSpacing(nextBlock) ==
  nextBlock.Type # "comment" /\ TrimSpace(nextBlock.Content) # <<>>

ReconstructBlock ==
  /\ pc = "reconstructSchema" /\ r < Len(filteredBlocks)
  /\ LET withBlock == Append(result, filteredBlocks[r + 1].Content)
     IN result' =
          IF r < Len(filteredBlocks) - 1 /\ NeedsSpacing(filteredBlocks[r + 2])
          THEN Append(withBlock, <<>>)
          ELSE withBlock
  /\ r' = r + 1
  /\ UNCHANGED <<pc, out, err, parseVars, filterVars, callVars>>

ReconstructReturn ==
  /\ pc = "reconstructSchema" /\ r >= Len(filteredBlocks)
  /\ out' = Join(result, <<NL>>)
  /\ err' = "none"
  /\ pc' = "done"
  /\ UNCHANGED <<parseVars, filterVars, reconstructVars, callVars>>

----------------------------------------------------------------------------
\* a second call, on the text the first call returned, with the same name

FilterAgain ==
  /\ pc = "done" /\ err = "none" /\ ~rerun
  /\ Call(out, generatorName)
  /\ rerun' = TRUE
  /\ firstOut' = out

Next ==
  \/ ParseSkipEmpty
  \/ ParseComment
  \/ ParseBlock
  \/ ParseOther
  \/ ParseReturn
  \/ FilterGeneratorKept
  \/ FilterGeneratorDropped
  \/ FilterSchemaBlock
  \/ FilterDefault
  \/ FilterNotFound
  \/ FilterFound
  \/ ReconstructBlock
  \/ ReconstructReturn
  \/ FilterAgain

Spec == Init /\ [][Next]_vars

----------------------------------------------------------------------------
\* Vocabulary of the properties

Returned == pc = "done"
Succeeded == pc = "done" /\ err = "none"
ScanFinished == pc # "parseBlocks"
FilterFinished == pc \in {"reconstructSchema", "done"}

BraceKinds == {"generator", "datasource", "model", "enum"}

IsBlank(s) == \A n \in 1..Len(s) : s[n] \in WhiteSpace

NonBlankLines(ls) == SelectSeq(ls, LAMBDA l : ~IsBlank(l))

\* the input lines from through to (zero-based, inclusive) joined by newlines
LineRange(ls, from, to) == Join(SubSeq(ls, from + 1, to + 1), <<NL>>)

\* "{" counted +1 and "}" counted -1 over the whole of s
BraceDepth(s) ==
  Cardinality({n \in 1..Len(s) : s[n] = "{"})
    - Cardinality({n \in 1..Len(s) : s[n] = "}"})

IsDeclaration(line) ==
  \E n \in 1..Len(blockTypes) : HasPrefix(TrimSpace(line), <<blockTypes[n], SP>>)

\* line s is a declaration carrying its opening brace, and from that brace on
\* the depth never comes back to 0 before the input ends
UnclosedDeclaration(ls, s) ==
  /\ IsDeclaration(ls[s + 1])
  /\ Contains(ls[s + 1], "{")
  /\ LET t == LineRange(ls, s, Len(ls) - 1)
     IN \A n \in 1..Len(t) :
          (\E m \in 1..n : t[m] = "{") => BraceDepth(SubSeq(t, 1, n)) > 0

GeneratorIndices(bs) == {j \in 1..Len(bs) : bs[j].Type = "generator"}

MatchingIndices(bs) ==
  {j \in GeneratorIndices(bs) : bs[j].Name = generatorName}

Covering(n) ==
  {j \in 1..Len(blocks) : blocks[j].StartPos <= n /\ n <= blocks[j].EndPos}

----------------------------------------------------------------------------
\* C1: when the input holds a declaration line whose opening brace is never
\* closed before the input ends, FilterByGenerator returns the
\* unbalanced-block error and no text, and emits no block for that line.
C1_UnbalancedBlockError ==
  (Returned /\ \E s \in 0..(Len(lines) - 1) : UnclosedDeclaration(lines, s))
    => /\ err = "unmatched braces"
       /\ out = <<>>
       /\ \A s \in 0..(Len(lines) - 1) :
            UnclosedDeclaration(lines, s)
              => \A j \in 1..Len(blocks) : blocks[j].StartPos # s

\* C2: FilterByGenerator returns the not-found error and the empty string
\* when no scanned generator block bears the requested name, and returns no
\* not-found error when one does.
C2_NotFoundIffNoMatch ==
  Returned =>
    /\ MatchingIndices(blocks) = {}
         => (err = "generator not found" /\ out = <<>>)
    /\ MatchingIndices(blocks) # {} => err # "generator not found"

\* C2 witness: a call that returned not-found on a schema that does declare
\* a generator, under another name, next to other blocks.
C2_Witness ==
  /\ Returned /\ err = "generator not found" /\ out = <<>>
  /\ GeneratorIndices(blocks) # {}
  /\ Len(blocks) > Cardinality(GeneratorIndices(blocks))

\* C3 (as stated): after filtering for a name that some generator block
\* bears, the retained blocks hold exactly one generator block, and it bears
\* the requested name.
C3_ExactlyOneGenerator ==
  (FilterFinished /\ foundGenerator) =>
    /\ Cardinality(GeneratorIndices(filteredBlocks)) = 1
    /\ \A j \in GeneratorIndices(filteredBlocks) :
         filteredBlocks[j].Name = generatorName

\* C3 (amended): after filtering for a name that some generator block bears,
\* at least one generator block is retained, every retained generator block
\* bears the requested name, and as many are retained as the scan produced
\* with that name (exactly one when the name is declared once).
C3_OnlyRequestedGenerators ==
  (FilterFinished /\ foundGenerator) =>
    /\ Cardinality(GeneratorIndices(filteredBlocks)) >= 1
    /\ \A j \in GeneratorIndices(filteredBlocks) :
         filteredBlocks[j].Name = generatorName
    /\ Cardinality(GeneratorIndices(filteredBlocks))
         = Cardinality(MatchingIndices(blocks))

\* C3 witness: a successful call on a schema with several generator blocks,
\* one of which was dropped and exactly one retained.
C3_Witness ==
  /\ Succeeded
  /\ Cardinality(GeneratorIndices(blocks)) >= 2
  /\ Cardinality(MatchingIndices(blocks)) = 1
  /\ Cardinality(GeneratorIndices(filteredBlocks)) = 1

\* C4: the line ranges of the emitted blocks are strictly increasing and
\* disjoint, lie inside the input, and every non-blank line the cursor has
\* passed lies in exactly one of them; a line in no range is blank.
C4_Coverage ==
  /\ \A j \in 1..Len(blocks) :
       /\ 0 <= blocks[j].StartPos
       /\ blocks[j].StartPos <= blocks[j].EndPos
       /\ blocks[j].EndPos < Len(lines)
  /\ \A j \in 1..(Len(blocks) - 1) :
       blocks[j].EndPos < blocks[j + 1].StartPos
  /\ \A n \in 0..(Len(lines) - 1) :
       (ScanFinished \/ n < i) =>
         /\ Cardinality(Covering(n)) <= 1
         /\ ~IsBlank(lines[n + 1]) => Cardinality(Covering(n)) = 1
         /\ Covering(n) = {} => IsBlank(lines[n + 1])

\* C4 witness: a finished scan that emitted several blocks, one of them
\* spanning several lines, and passed a blank line that lies in no range.
C4_Witness ==
  /\ ScanFinished
  /\ Len(blocks) >= 2
  /\ \E j \in 1..Len(blocks) : blocks[j].StartPos < blocks[j].EndPos
  /\ \E n \in 0..(Len(lines) - 1) : Covering(n) = {}

\* C5: when FilterByGenerator succeeds, the retained sequence is the scanned
\* sequence without the generator blocks of another name: every other block
\* is retained, in order, with kind, name and text unchanged.
C5_RetainedSubsequence ==
  (FilterFinished /\ foundGenerator) =>
    filteredBlocks =
      SelectSeq(blocks,
                LAMBDA b : ~(b.Type = "generator" /\ b.Name # generatorName))

\* C5 witness: a successful call that dropped a generator block and retained
\* a comment or other block next to a model or datasource block.
C5_Witness ==
  /\ Succeeded
  /\ Len(filteredBlocks) < Len(blocks)
  /\ \E j \in 1..Len(filteredBlocks) :
       filteredBlocks[j].Type \in {"comment", "other", "model", "datasource"}

\* C6: when the schema holds exactly one generator block and it bears the
\* requested name, the returned text has the non-blank lines of the input,
\* none lost, duplicated or reordered.
C6_RoundTrip ==
  (Returned /\ Cardinality(GeneratorIndices(blocks)) = 1
            /\ Cardinality(MatchingIndices(blocks)) = 1)
    => /\ err = "none"
       /\ NonBlankLines(Split(out)) = NonBlankLines(Split(content))

\* the text the separator rule prescribes for a block sequence: the texts in
\* order, two newlines before a block that is no comment and is not blank,
\* one newline before any other block
RECURSIVE Separated(_)
Separated(bs) ==
  IF Len(bs) = 0 THEN <<>>
  ELSE IF Len(bs) = 1 THEN bs[1].Content
  ELSE bs[1].Content
         \o (IF bs[2].Type # "comment" /\ ~IsBlank(bs[2].Content)
             THEN <<NL, NL>> ELSE <<NL>>)
         \o Separated(Tail(bs))

\* C7: the returned text is the retained blocks' texts in order with exactly
\* one blank line before every next block that is no comment and not blank,
\* none before a comment, nothing before the first or after the last block;
\* filtering generator a, generator b, model U for "b" gives generator b,
\* one blank line, model U.
C7_SeparatorRule ==
  /\ Succeeded => out = Separated(filteredBlocks)
  /\ (Succeeded /\ content = Join(<<GenA, GenB, ModelU>>, <<NL>>)
                /\ generatorName = <<"b">>)
       => out = GenB \o <<NL, NL>> \o ModelU

\* C7 witness: a successful call whose output has a comment directly after a
\* block and a blank line before a later block.
C7_Witness ==
  /\ Succeeded
  /\ Len(filteredBlocks) = 3
  /\ filteredBlocks[2].Type = "comment"
  /\ filteredBlocks[3].Type # "comment"
  /\ out = filteredBlocks[1].Content \o <<NL>> \o filteredBlocks[2].Content
             \o <<NL, NL>> \o filteredBlocks[3].Content

\* C8: the text of every block that parseBlockAt recognized is the input
\* lines StartPos..EndPos joined by newlines, with no line after EndPos.
C8_TextIsLineRange ==
  \A j \in 1..Len(blocks) :
    blocks[j].Type \in BraceKinds
      => blocks[j].Content = LineRange(lines, blocks[j].StartPos, blocks[j].EndPos)

\* C9: over the lines StartPos..EndPos of every brace-delimited block the
\* depth is incremented at least once, never drops below 0, is 0 at the end
\* of line EndPos and is not 0 at the end of an earlier line once incremented.
C9_BalancedBraces ==
  \A j \in 1..Len(blocks) :
    blocks[j].Type \in BraceKinds =>
      LET b == blocks[j]
          t == LineRange(lines, b.StartPos, b.EndPos)
      IN /\ Contains(t, "{")
         /\ \A n \in 0..Len(t) : BraceDepth(SubSeq(t, 1, n)) >= 0
         /\ BraceDepth(t) = 0
         /\ \A e \in b.StartPos..(b.EndPos - 1) :
              LET p == LineRange(lines, b.StartPos, e)
              IN Contains(p, "{") => BraceDepth(p) # 0

\* C10: filtering the text a successful call returned, for the same name,
\* succeeds and returns that text again.
C10_Idempotent ==
  (Returned /\ rerun) => (err = "none" /\ out = firstOut)

====
